---- MODULE Spec2Model ----
(***************************************************************************)
(* counterfeit: a filesystem-backed HTTP stand-in server.                  *)
(*                                                                         *)
(* The model covers the File Selector (DefaultFilePicker::pick_file with   *)
(* its process-wide cursor map) and the request pipeline of                *)
(* FileMapperService::call (directory resolution, file selection,          *)
(* MapperOutput::new, the mutation chain).  pick_file is modelled twice:   *)
(* as one step per call, and step by step for threads that call it         *)
(* concurrently and meet at the Mutex of the cursor map.                   *)
(*                                                                         *)
(* Strings the code inspects character by character (file names, methods)  *)
(* are sequences of one-character strings, so that to_lowercase, file_stem *)
(* and starts_with are computed as the code computes them.  The file       *)
(* system is case-sensitive: two names differing only in case are two      *)
(* entries.                                                                *)
(***************************************************************************)
EXTENDS Integers, Sequences, FiniteSets, TLC

VARIABLES
    fs,                 \* directory -> [readable, entries]: the directory tree
    create_missing,     \* DefaultFilePicker.create_missing
    multifile_indices,  \* DefaultFilePicker.multifile_indices: directory -> cursor
    picks,              \* history of the pick_file calls made so far
    mutations,          \* FileMapperService.mutations
    deleted,            \* number of files deleted by other processes so far
    last,               \* the outcome of the latest FileMapperService::call
    pc,                 \* thread -> where it is in pick_file
    frame,              \* thread -> the locals of its pick_file call
    holders,            \* the threads holding the Mutex of multifile_indices
    done                \* the pick_file calls threads have returned from

\* the variables of the threads calling pick_file concurrently
threads == <<pc, frame, holders, done>>

vars == <<fs, create_missing, multifile_indices, picks, mutations, deleted, last,
          pc, frame, holders, done>>

----------------------------------------------------------------------------
(* Bounds *)

\* number of pick_file calls recorded in one behaviour
MaxCalls == 4

\* number of files other processes delete in one behaviour
MaxDeleted == 1

\* number of pick_file calls threads start in one behaviour
MaxStarted == 3

----------------------------------------------------------------------------
(* Strings *)

UpperToLower ==
    [G |-> "g", E |-> "e", T |-> "t", B |-> "b", P |-> "p", O |-> "o", S |-> "s"]

char_to_lowercase(c) == IF c \in DOMAIN UpperToLower THEN UpperToLower[c] ELSE c

\* str::to_lowercase
to_lowercase(s) == [i \in 1..Len(s) |-> char_to_lowercase(s[i])]

\* str::starts_with
starts_with(s, prefix) ==
    /\ Len(prefix) <= Len(s)
    /\ SubSeq(s, 1, Len(prefix)) = prefix

None == [tag |-> "None"]
Some(v) == [tag |-> "Some", v |-> v]

LastDot(name) ==
    LET dots == {i \in 1..Len(name) : name[i] = "."}
    IN  IF dots = {} THEN 0 ELSE CHOOSE i \in dots : \A j \in dots : j <= i

\* Path::file_stem on the final component: the whole name when it has no
\* '.' or only a leading one, otherwise the part before the last '.'
file_stem(name) ==
    IF name = <<".", ".">> \/ name = <<>> THEN None
    ELSE IF LastDot(name) <= 1 THEN Some(name)
    ELSE Some(SubSeq(name, 1, LastDot(name) - 1))

\* Path::extension on the final component
extension(name) ==
    IF name = <<".", ".">> \/ name = <<>> \/ LastDot(name) <= 1 THEN None
    ELSE Some(SubSeq(name, LastDot(name) + 1, Len(name)))

Json == <<"j", "s", "o", "n">>
Txt  == <<"t", "x", "t">>
Underscore == <<"_">>
Dot == <<".">>

----------------------------------------------------------------------------
(* Methods, directories, files *)

m_get  == <<"g", "e", "t">>
m_GET  == <<"G", "E", "T">>
m_post == <<"p", "o", "s", "t">>
Methods == {m_get, m_GET, m_post}

Dirs == {"widgets", "gadgets"}

\* PathBuf: push(directory); push(file_name)
JoinPath(directory, file_name) == [dir |-> directory, name |-> file_name]

File(name, content, read) ==
    [name |-> name, kind |-> "file", content |-> content, read |-> read]
SubDir(name) ==
    [name |-> name, kind |-> "dir", content |-> "", read |-> "IsADirectory"]

n_get_json   == m_get \o Dot \o Json
n_GET_json   == m_GET \o Dot \o Json
n_get_a_json == m_get \o Underscore \o <<"a">> \o Dot \o Json
n_Get_B_txt  == <<"G", "e", "t">> \o Underscore \o <<"B">> \o Dot \o Txt
n_getx_json  == m_get \o <<"x">> \o Dot \o Json
n_post_json  == m_post \o Dot \o Json
n_POST_a_txt == <<"P", "O", "S", "T">> \o Underscore \o <<"a">> \o Dot \o Txt
\* the directory listings a behaviour may start from, in read_dir order
Listings == {
    <<>>,
    <<File(n_get_json, "{id:1}", "Ok")>>,
    <<File(n_get_a_json, "a", "Ok"), File(n_getx_json, "x", "Ok"),
      File(n_get_json, "{id:1}", "Ok"), File(n_Get_B_txt, "b", "Ok"),
      File(n_post_json, "p", "PermissionDenied")>>,
    <<File(n_GET_json, "G", "Ok"), File(n_POST_a_txt, "pa", "InvalidData")>>,
    <<SubDir(n_get_json), File(n_post_json, "p", "Ok")>>
}

Directory(readable, entries) == [readable |-> readable, entries |-> entries]

\* what the first directory may start as: one of the listings, or not listable
Widgets == {Directory(TRUE, l) : l \in Listings} \cup {Directory(FALSE, <<>>)}

\* the second directory
Gadgets ==
    Directory(TRUE, <<File(n_get_json, "{id:2}", "Ok"), File(n_get_a_json, "a2", "Ok")>>)

----------------------------------------------------------------------------
(* Results *)

Ok(path) == [tag |-> "Ok", path |-> path]
Err(kind, msg) == [tag |-> "Err", kind |-> kind, msg |-> msg]

----------------------------------------------------------------------------
(* DefaultFilePicker *)

\* file_matches(file_path, method)
file_matches(file_name, method) ==
    LET method_str == to_lowercase(method)
        stem == file_stem(file_name)
    IN  IF stem.tag = "Some"
        THEN \/ stem.v = method_str
             \/ starts_with(to_lowercase(stem.v), method_str \o Underscore)
        ELSE FALSE

\* fs::read_dir(..).filter_map(ok).map(path).filter(is_file).filter(file_matches)
available_files(directory, entries, method) ==
    LET kept == SelectSeq(entries,
                    LAMBDA e : e.kind = "file" /\ file_matches(e.name, method))
    IN  [i \in 1..Len(kept) |-> JoinPath(directory, kept[i].name)]

\* create_file adding a second entry when the name is already taken by a file
create_file_duplicate(entries, name, pos) ==
    IF \E i \in 1..Len(entries) : entries[i].name = name /\ entries[i].kind = "dir"
    THEN [ok |-> FALSE, entries |-> entries]
    ELSE [ok |-> TRUE,
          entries |-> SubSeq(entries, 1, pos - 1) \o <<File(name, "", "Ok")>>
                      \o SubSeq(entries, pos, Len(entries))]

\* fs::File::create on a directory's entries: a new empty file placed at
\* position pos of the listing, an existing file truncated, a failure when
\* the name is taken by a subdirectory
create_file(entries, name, pos) ==
    LET at == {i \in 1..Len(entries) : entries[i].name = name}
    IN  IF at = {}
        THEN [ok |-> TRUE,
              entries |-> SubSeq(entries, 1, pos - 1) \o <<File(name, "", "Ok")>>
                          \o SubSeq(entries, pos, Len(entries))]
        ELSE IF \E i \in at : entries[i].kind = "dir"
        THEN [ok |-> FALSE, entries |-> entries]
        ELSE [ok |-> TRUE,
              entries |-> [i \in 1..Len(entries) |->
                              IF i \in at THEN File(name, "", "Ok") ELSE entries[i]]]

\* indices.entry(directory).or_insert_with(|| 0)
entry_or_insert(indices, directory) ==
    IF directory \in DOMAIN indices THEN indices[directory] ELSE 0

\* reset_index with the comparison off by one: a cursor equal to the
\* candidate count is kept
reset_index_gt(index, len) == IF index > len THEN 0 ELSE index

\* reset_index without the reset: a stale cursor is used as it is
reset_index_never(index, len) == index

\* if *index >= available_files.len() { *index = 0; }
reset_index(index, len) == IF index >= len THEN 0 ELSE index

\* *index += 1 on the Some branch of nth
advance_index(index) == index + 1

store_index(indices, directory, index) ==
    [k \in DOMAIN indices \cup {directory} |->
        IF k = directory THEN index ELSE indices[k]]

\* the else branch of pick_file: the cursor read-modify-write under the lock
select_file(indices, directory, available) ==
    LET index == reset_index(entry_or_insert(indices, directory), Len(available))
    IN  IF index < Len(available)
        THEN [result  |-> Ok(available[index + 1]),
              index   |-> index,
              indices |-> store_index(indices, directory, advance_index(index))]
        ELSE [result  |-> Err("Other", "Could not read file"),
              index   |-> index,
              indices |-> store_index(indices, directory, index)]

\* missing_file_name without the to_lowercase
missing_file_name_as_given(method) == method \o Dot \o Json

\* the name of the placeholder file: format!("{}.json", method.to_lowercase())
missing_file_name(method) == to_lowercase(method) \o Dot \o Json

\* no_files with the create_missing test dropped: the placeholder is
\* created whatever the configuration
no_files_create_always(tree, create, directory, method, pos) ==
    LET made == create_file(tree[directory].entries, missing_file_name(method), pos)
    IN  IF made.ok
        THEN [result |-> Ok(JoinPath(directory, missing_file_name(method))),
              fs |-> [tree EXCEPT ![directory].entries = made.entries]]
        ELSE [result |-> Err("Other", "Is a directory"), fs |-> tree]

\* the if branch of pick_file: no candidate
no_files(tree, create, directory, method, pos) ==
    IF create
    THEN LET made == create_file(tree[directory].entries, missing_file_name(method), pos)
         IN  IF made.ok
             THEN [result |-> Ok(JoinPath(directory, missing_file_name(method))),
                   fs |-> [tree EXCEPT ![directory].entries = made.entries]]
             ELSE [result |-> Err("Other", "Is a directory"), fs |-> tree]
    ELSE [result |-> Err("NotFound", "No files available"), fs |-> tree]

\* pick_file with the cursor entry inserted before the candidates are looked
\* at, so that the empty branch leaves an entry behind as well
pick_file_insert_first(tree, indices, create, directory, method, pos) ==
    IF ~tree[directory].readable
    THEN [result |-> Err("PermissionDenied", "Permission denied"),
          fs |-> tree, indices |-> indices,
          listed |-> FALSE, available |-> <<>>, index |-> -1]
    ELSE
        LET available == available_files(directory, tree[directory].entries, method)
            inserted == store_index(indices, directory, entry_or_insert(indices, directory))
        IN  IF available = <<>>
            THEN LET r == no_files(tree, create, directory, method, pos)
                 IN  [result |-> r.result, fs |-> r.fs, indices |-> inserted,
                      listed |-> TRUE, available |-> available, index |-> -1]
            ELSE LET s == select_file(inserted, directory, available)
                 IN  [result |-> s.result, fs |-> tree, indices |-> s.indices,
                      listed |-> TRUE, available |-> available, index |-> s.index]

\* DefaultFilePicker::pick_file(directory, request): the result, the
\* directory tree and the cursor map it leaves, and what it listed and used
pick_file(tree, indices, create, directory, method, pos) ==
    IF ~tree[directory].readable
    THEN [result |-> Err("PermissionDenied", "Permission denied"),
          fs |-> tree, indices |-> indices,
          listed |-> FALSE, available |-> <<>>, index |-> -1]
    ELSE
        LET available == available_files(directory, tree[directory].entries, method)
        IN  IF available = <<>>
            THEN LET r == no_files(tree, create, directory, method, pos)
                 IN  [result |-> r.result, fs |-> r.fs, indices |-> indices,
                      listed |-> TRUE, available |-> available, index |-> -1]
            ELSE LET s == select_file(indices, directory, available)
                 IN  [result |-> s.result, fs |-> tree, indices |-> s.indices,
                      listed |-> TRUE, available |-> available, index |-> s.index]

----------------------------------------------------------------------------
(* The File Selector called directly, one call after the other *)

NoOutcome == [tag |-> "None"]

\* the threads serving requests
Threads == {"t1", "t2"}

\* the locals of a thread that is not inside pick_file
NoFrame == [tag |-> "None"]

\* no thread is inside pick_file
NoThreads ==
    /\ pc = [t \in Threads |-> "idle"]
    /\ frame = [t \in Threads |-> NoFrame]
    /\ holders = {}
    /\ done = <<>>

Init ==
    /\ \E w \in Widgets :
          fs = [d \in Dirs |-> IF d = "widgets" THEN w ELSE Gadgets]
    /\ create_missing \in BOOLEAN
    /\ multifile_indices = << >>
    /\ picks = <<>>
    /\ mutations = <<>>
    /\ deleted = 0
    /\ last = NoOutcome
    /\ NoThreads

\* where File::create may list a new entry: before or after the others
\* (no choice to make when nothing is ever created)
Positions(entries) == IF create_missing THEN {1, Len(entries) + 1} ELSE {1}

\* one pick_file call, from entry to return
PickFile(directory, method, pos) ==
    /\ Len(picks) < MaxCalls
    /\ \E r \in {pick_file(fs, multifile_indices, create_missing, directory, method, pos)} :
           /\ fs' = r.fs
           /\ multifile_indices' = r.indices
           /\ picks' = Append(picks,
                  [dir       |-> directory,
                   method    |-> method,
                   tree      |-> fs,
                   before    |-> multifile_indices,
                   listed    |-> r.listed,
                   available |-> r.available,
                   index     |-> r.index,
                   result    |-> r.result,
                   tree_after |-> r.fs,
                   after     |-> r.indices])
    /\ UNCHANGED <<create_missing, mutations, deleted, last>>
    /\ UNCHANGED threads

Next ==
    \E directory \in Dirs, method \in Methods :
        \E pos \in Positions(fs[directory].entries) :
            PickFile(directory, method, pos)

Spec == Init /\ [][Next]_vars

----------------------------------------------------------------------------
(* FileMapperService: the request pipeline *)

\* StatusCode::OK, NOT_FOUND, INTERNAL_SERVER_ERROR
STATUS_OK == 200
STATUS_NOT_FOUND == 404
STATUS_INTERNAL_SERVER_ERROR == 500

\* the URL paths of requests; a path names the directory base_path + path
Paths == {"widgets", "gadgets", "missing"}

\* the methods of requests: hyper's GET and a lowercase extension method
RequestMethods == {m_GET, m_post}

Request(method, path) == [method |-> method, path |-> path]

\* DirPicker::pick_directory: the directory of the request's path, NotFound
\* when there is no such directory
pick_directory(tree, request) ==
    IF request.path \in DOMAIN tree
    THEN Ok(request.path)
    ELSE Err("NotFound", "No such directory")

\* the file of a path is deleted by another process
remove_file(tree, path) ==
    [tree EXCEPT ![path.dir].entries = SelectSeq(@, LAMBDA e : e.name # path.name)]

\* fs::read_to_string(file_path)
read_to_string(tree, path) ==
    LET found == SelectSeq(tree[path.dir].entries, LAMBDA e : e.name = path.name)
    IN  IF found = <<>>
        THEN Err("NotFound", "No such file or directory")
        ELSE IF found[1].read = "Ok"
        THEN [tag |-> "Ok", content |-> found[1].content]
        ELSE Err(found[1].read, found[1].read)

\* Response::new(Body::from(body)): status 200, no header
Response_new(body) == [status |-> STATUS_OK, headers |-> << >>, body |-> body]

\* HeaderMap::insert
insert_header(headers, name, value) ==
    [k \in DOMAIN headers \cup {name} |-> IF k = name THEN value ELSE headers[k]]

\* set_default_headers(response)
set_default_headers(response) ==
    [response EXCEPT !.headers =
        insert_header(
            insert_header(
                insert_header(@, "access-control-allow-origin", "*"),
                "access-control-allow-methods", "*"),
            "access-control-allow-headers", "*")]

\* error_status with every error mapped to 500
error_status_always_500(kind) == STATUS_INTERNAL_SERVER_ERROR

\* match error.kind() { NotFound => NOT_FOUND, _ => INTERNAL_SERVER_ERROR }
error_status(kind) ==
    IF kind = "NotFound" THEN STATUS_NOT_FOUND ELSE STATUS_INTERNAL_SERVER_ERROR

\* response_from_error without the call of set_default_headers
response_from_error_bare(error) ==
    [Response_new(<<error.msg>>) EXCEPT !.status = error_status(error.kind)]

\* MapperOutput::response_from_error(error)
response_from_error(error) ==
    set_default_headers(
        [Response_new(<<error.msg>>) EXCEPT !.status = error_status(error.kind)])

\* MapperOutput::response_from_file(file_path)
response_from_file(tree, file_path) ==
    LET read == read_to_string(tree, file_path)
    IN  IF read.tag = "Ok"
        THEN set_default_headers(
                 [Response_new(<<read.content>>) EXCEPT !.status = STATUS_OK])
        ELSE response_from_error(read)

\* MapperOutput::new storing the error of a failed read as the result
MapperOutput_new_read_result(tree, request, result) ==
    LET read == IF result.tag = "Ok" THEN read_to_string(tree, result.path) ELSE result
    IN  [request  |-> request,
         response |-> IF result.tag = "Ok"
                      THEN response_from_file(tree, result.path)
                      ELSE response_from_error(result),
         result   |-> IF read.tag = "Err" THEN read ELSE result]

\* MapperOutput::new(request, result)
MapperOutput_new(tree, request, result) ==
    [request  |-> request,
     response |-> IF result.tag = "Ok"
                  THEN response_from_file(tree, result.path)
                  ELSE response_from_error(result),
     result   |-> result]

\* impl From<MapperOutput> for Response<Body>
into_response(mapper_output) == mapper_output.response

\* a registered mutation: it appends its name to the response body, or fails
Mutation(name, fails) == [name |-> name, fails |-> fails]

\* the mutation lists a service may be constructed with
MutationLists == {
    <<>>,
    <<Mutation("A", FALSE), Mutation("B", FALSE)>>,
    <<Mutation("A", FALSE), Mutation("F", TRUE), Mutation("B", FALSE)>>
}

\* ResponseMutation::apply_mutation(&mut output)
apply_mutation(mutation, output) ==
    IF mutation.fails
    THEN Err("Mutation", mutation.name)
    ELSE [tag |-> "Ok",
          output |-> [output EXCEPT !.response.body = Append(@, mutation.name)]]

\* mutation_step with the error of a mutation dropped instead of returned
mutation_step_ignore_error(run, mutation) ==
    LET r == apply_mutation(mutation, run.output)
    IN  [output  |-> IF r.tag = "Ok" THEN r.output ELSE run.output,
         applied |-> Append(run.applied, mutation.name),
         error   |-> None]

\* one iteration of the loop over self.mutations:
\* if let Err(e) = mutation.apply_mutation(&mut output) { return future::err(e) }
mutation_step(run, mutation) ==
    LET r == apply_mutation(mutation, run.output)
    IN  IF r.tag = "Err"
        THEN [output  |-> run.output,
              applied |-> Append(run.applied, mutation.name),
              error   |-> Some(r)]
        ELSE [output  |-> r.output,
              applied |-> Append(run.applied, mutation.name),
              error   |-> None]

\* for mutation in self.mutations.iter(), from mutation i on
RECURSIVE run_mutations(_, _, _)
run_mutations(muts, i, run) ==
    IF i > Len(muts) \/ run.error # None
    THEN run
    ELSE run_mutations(muts, i + 1, mutation_step(run, muts[i]))

Response(response) == [tag |-> "Response", response |-> response]
Failure(error) == [tag |-> "Failure", error |-> error]

\* resolver_failed answering with the error's HTTP response
resolver_failed_responds(tree, indices, muts, request, error) ==
    [fs |-> tree, indices |-> indices, vanished |-> FALSE,
     file |-> None, built |-> None, applied |-> <<>>, output |-> None,
     outcome |-> Response(response_from_error(error))]

\* resolver_failed building an output and running the mutations before failing
resolver_failed_runs_chain(tree, indices, muts, request, error) ==
    LET built == MapperOutput_new(tree, request, error)
        run == run_mutations(muts, 1, [output |-> built, applied |-> <<>>, error |-> None])
    IN  [fs |-> tree, indices |-> indices, vanished |-> FALSE,
         file |-> None, built |-> Some(built), applied |-> run.applied,
         output |-> Some(run.output),
         outcome |-> Failure(error)]

\* the Err(e) arm of call: Err(e) => future::err(e.into())
resolver_failed(tree, indices, muts, request, error) ==
    [fs |-> tree, indices |-> indices, vanished |-> FALSE,
     file |-> None, built |-> None, applied |-> <<>>, output |-> None,
     outcome |-> Failure(error)]

\* resolver_ok returning the selector's error as the error of the future
resolver_ok_propagates(tree, indices, create, muts, request, directory, pos, vanished) ==
    LET file == pick_file(tree, indices, create, directory, request.method, pos)
        tree_read == IF vanished /\ file.result.tag = "Ok"
                     THEN remove_file(file.fs, file.result.path)
                     ELSE file.fs
        built == MapperOutput_new(tree_read, request, file.result)
        run == run_mutations(muts, 1, [output |-> built, applied |-> <<>>, error |-> None])
    IN  [fs |-> tree_read, indices |-> file.indices,
         vanished |-> tree_read # file.fs,
         file |-> Some(file.result), built |-> Some(built),
         applied |-> IF file.result.tag = "Err" THEN <<>> ELSE run.applied,
         output |-> Some(run.output),
         outcome |-> IF file.result.tag = "Err"
                     THEN Failure(file.result)
                     ELSE IF run.error # None
                     THEN Failure(run.error.v)
                     ELSE Response(into_response(run.output))]

\* the Ok(directory) arm of call: pick_file, MapperOutput::new, the mutation
\* loop, future::ok(output.into()).  vanished: the selected file is deleted
\* by another process before it is read.
resolver_ok(tree, indices, create, muts, request, directory, pos, vanished) ==
    LET file == pick_file(tree, indices, create, directory, request.method, pos)
        tree_read == IF vanished /\ file.result.tag = "Ok"
                     THEN remove_file(file.fs, file.result.path)
                     ELSE file.fs
        built == MapperOutput_new(tree_read, request, file.result)
        run == run_mutations(muts, 1, [output |-> built, applied |-> <<>>, error |-> None])
    IN  [fs |-> tree_read, indices |-> file.indices,
         vanished |-> tree_read # file.fs,
         file |-> Some(file.result), built |-> Some(built), applied |-> run.applied,
         output |-> Some(run.output),
         outcome |-> IF run.error # None
                     THEN Failure(run.error.v)
                     ELSE Response(into_response(run.output))]

\* FileMapperService::call(request)
call(tree, indices, create, muts, request, pos, vanished) ==
    LET directory == pick_directory(tree, request)
    IN  IF directory.tag = "Ok"
        THEN resolver_ok(tree, indices, create, muts, request, directory.path, pos, vanished)
        ELSE resolver_failed(tree, indices, muts, request, directory)

InitService ==
    /\ \E w \in Widgets :
          fs = [d \in Dirs |-> IF d = "widgets" THEN w ELSE Gadgets]
    /\ create_missing \in BOOLEAN
    /\ multifile_indices = << >>
    /\ picks = <<>>
    /\ mutations \in MutationLists
    /\ deleted = 0
    /\ last = NoOutcome
    /\ NoThreads

\* one request, from call to the returned future
Call(method, path, pos, vanished) ==
    /\ vanished => deleted < MaxDeleted
    /\ \E o \in {call(fs, multifile_indices, create_missing, mutations,
                      Request(method, path), pos, vanished)} :
           /\ fs' = o.fs
           /\ multifile_indices' = o.indices
           /\ deleted' = IF o.vanished THEN deleted + 1 ELSE deleted
           /\ last' = [tag      |-> "Call",
                       request  |-> Request(method, path),
                       tree     |-> fs,
                       before   |-> multifile_indices,
                       file     |-> o.file,
                       built    |-> o.built,
                       applied  |-> o.applied,
                       output   |-> o.output,
                       outcome  |-> o.outcome]
    /\ UNCHANGED <<create_missing, mutations, picks>>
    /\ UNCHANGED threads

\* whether another process may delete the selected file before the read
Vanishings == IF deleted < MaxDeleted THEN BOOLEAN ELSE {FALSE}

NextService ==
    \E method \in RequestMethods, path \in Paths, vanished \in Vanishings :
        \E pos \in IF path \in DOMAIN fs THEN Positions(fs[path].entries) ELSE {1} :
            Call(method, path, pos, vanished)

SpecService == InitService /\ [][NextService]_vars

----------------------------------------------------------------------------
(* The File Selector called by concurrent threads, one step at a time *)

\* Mutex::lock that lets a thread in while another holds the guard
can_lock_always(holding) == TRUE

\* self.multifile_indices.lock(): granted when no thread holds the guard
can_lock(holding) == holding = {}

\* the MutexGuard kept when the else block is left
release_never(holding, t) == holding

\* the MutexGuard `indices` is dropped at the end of the else block
release(holding, t) == holding \ {t}

\* let index = indices.entry(directory).or_insert_with(|| 0);
\* if *index >= available_files.len() { *index = 0; }
\* read: the cursor the call found (0 when it inserted the entry)
lock_entry(indices, directory, available) ==
    LET read == entry_or_insert(indices, directory)
    IN  [read    |-> read,
         indices |-> store_index(indices, directory,
                                 reset_index(read, Len(available)))]

\* match available_files.into_iter().nth(*index) { Some(file) => { *index += 1;
\* Ok(file) }, None => Err("Could not read file") }
nth_file(indices, directory, available) ==
    LET index == indices[directory]
    IN  IF index < Len(available)
        THEN [result  |-> Ok(available[index + 1]),
              index   |-> index,
              indices |-> store_index(indices, directory, advance_index(index))]
        ELSE [result  |-> Err("Other", "Could not read file"),
              index   |-> index,
              indices |-> indices]

\* the method of the requests the threads serve
ThreadMethods == {m_GET}

\* the calls started so far, and the calls entered and returned so far
Started == Len(done) + Cardinality({t \in Threads : pc[t] # "idle"})
Now == Started + Len(done)

InitThreads ==
    /\ \E w \in Widgets :
          fs = [d \in Dirs |-> IF d = "widgets" THEN w ELSE Gadgets]
    /\ create_missing \in BOOLEAN
    /\ multifile_indices = << >>
    /\ picks = <<>>
    /\ mutations = <<>>
    /\ deleted = 0
    /\ last = NoOutcome
    /\ NoThreads

\* thread t enters pick_file and lists the directory
Enter(t, directory, method) ==
    /\ pc[t] = "idle"
    /\ Started < MaxStarted
    /\ \E listed \in {fs[directory].readable} :
       \E available \in {IF listed
                         THEN available_files(directory, fs[directory].entries, method)
                         ELSE <<>>} :
           /\ frame' = [frame EXCEPT ![t] =
                  [tag       |-> "Call",
                   dir       |-> directory,
                   method    |-> method,
                   began     |-> Now + 1,
                   listed    |-> listed,
                   available |-> available,
                   read      |-> -1,
                   index     |-> -1,
                   result    |-> IF listed THEN NoOutcome
                                 ELSE Err("PermissionDenied", "Permission denied")]]
           /\ pc' = [pc EXCEPT ![t] =
                  IF ~listed THEN "return"
                  ELSE IF available = <<>> THEN "no_files" ELSE "lock"]
    /\ UNCHANGED <<fs, create_missing, multifile_indices, picks, mutations,
                   deleted, last, holders, done>>

\* thread t found no candidate: it creates the placeholder or gives NotFound
NoFiles(t) ==
    /\ pc[t] = "no_files"
    /\ \E pos \in Positions(fs[frame[t].dir].entries) :
       \E r \in {no_files(fs, create_missing, frame[t].dir, frame[t].method, pos)} :
           /\ fs' = r.fs
           /\ frame' = [frame EXCEPT ![t].result = r.result]
    /\ pc' = [pc EXCEPT ![t] = "return"]
    /\ UNCHANGED <<create_missing, multifile_indices, picks, mutations,
                   deleted, last, holders, done>>

\* thread t is granted the Mutex
Lock(t) ==
    /\ pc[t] = "lock"
    /\ can_lock(holders)
    /\ holders' = holders \cup {t}
    /\ pc' = [pc EXCEPT ![t] = "entry"]
    /\ UNCHANGED <<fs, create_missing, multifile_indices, picks, mutations,
                   deleted, last, frame, done>>

\* thread t looks its directory's cursor up and clamps it
Entry(t) ==
    /\ pc[t] = "entry"
    /\ \E e \in {lock_entry(multifile_indices, frame[t].dir, frame[t].available)} :
           /\ multifile_indices' = e.indices
           /\ frame' = [frame EXCEPT ![t].read = e.read]
    /\ pc' = [pc EXCEPT ![t] = "nth"]
    /\ UNCHANGED <<fs, create_missing, picks, mutations, deleted, last,
                   holders, done>>

\* thread t takes the candidate at the cursor, advances the cursor and
\* drops the guard
Nth(t) ==
    /\ pc[t] = "nth"
    /\ \E n \in {nth_file(multifile_indices, frame[t].dir, frame[t].available)} :
           /\ multifile_indices' = n.indices
           /\ frame' = [frame EXCEPT ![t].index = n.index, ![t].result = n.result]
    /\ holders' = release(holders, t)
    /\ pc' = [pc EXCEPT ![t] = "return"]
    /\ UNCHANGED <<fs, create_missing, picks, mutations, deleted, last, done>>

\* thread t returns from pick_file
Return(t) ==
    /\ pc[t] = "return"
    /\ done' = Append(done,
           [dir       |-> frame[t].dir,
            method    |-> frame[t].method,
            began     |-> frame[t].began,
            ended     |-> Now + 1,
            listed    |-> frame[t].listed,
            available |-> frame[t].available,
            read      |-> frame[t].read,
            index     |-> frame[t].index,
            result    |-> frame[t].result])
    /\ frame' = [frame EXCEPT ![t] = NoFrame]
    /\ pc' = [pc EXCEPT ![t] = "idle"]
    /\ UNCHANGED <<fs, create_missing, multifile_indices, picks, mutations,
                   deleted, last, holders>>

\* a step of thread t inside pick_file
Step(t) == NoFiles(t) \/ Lock(t) \/ Entry(t) \/ Nth(t) \/ Return(t)

NextThreads ==
    \E t \in Threads :
        \/ \E directory \in Dirs, method \in ThreadMethods :
               Enter(t, directory, method)
        \/ NoFiles(t)
        \/ Lock(t)
        \/ Entry(t)
        \/ Nth(t)
        \/ Return(t)

SpecThreads == InitThreads /\ [][NextThreads]_vars

\* every thread inside pick_file keeps being scheduled
SpecThreadsFair == SpecThreads /\ \A t \in Threads : WF_vars(Step(t))

----------------------------------------------------------------------------
(* Claims about the File Selector *)

Range(s) == {s[i] : i \in 1..Len(s)}

\* the calls made on one directory, in the order they were made
PicksOn(d) == SelectSeq(picks, LAMBDA c : c.dir = d)

\* call j of calls is for the method and the candidates of call i, on the
\* same directory contents
SameListing(calls, i, j) ==
    /\ calls[j].method = calls[i].method
    /\ calls[j].listed
    /\ calls[j].available = calls[i].available
    /\ calls[j].tree[calls[i].dir] = calls[i].tree[calls[i].dir]

\* C1: on a directory that does not change and lists N >= 1 candidates for a
\* method, any N consecutive calls for that method return each candidate
\* exactly once, and counted from the first call ever made on the directory
\* the k-th call returns the candidate at position (k-1) mod N.
C1_RoundRobinCoverage ==
    \A d \in Dirs :
        LET calls == PicksOn(d)
        IN  \A i \in 1..Len(calls) :
                LET cands == calls[i].available
                    N == Len(cands)
                IN  (calls[i].listed /\ N >= 1) =>
                    /\ (/\ i + N - 1 <= Len(calls)
                        /\ \A j \in i..(i + N - 1) : SameListing(calls, i, j))
                       => {calls[j].result : j \in i..(i + N - 1)}
                            = {Ok(cands[k]) : k \in 1..N}
                    /\ (i = 1) =>
                         \A k \in 1..Len(calls) :
                             (\A j \in 1..k : SameListing(calls, 1, j))
                             => calls[k].result = Ok(cands[((k - 1) % N) + 1])

\* a directory has served a full cycle of three candidates and wrapped
C1_Witness ==
    \E d \in Dirs :
        LET calls == PicksOn(d)
        IN  /\ Len(calls) >= 4
            /\ Len(calls[1].available) = 3
            /\ \A j \in 1..4 : SameListing(calls, 1, j)
            /\ calls[4].result = Ok(calls[1].available[1])

\* call c listed the directory and found no candidate
TookEmptyBranch(c) == c.listed /\ c.available = <<>>

\* the name '<m lowercased>.json', spelled out character by character
PlaceholderName(method) ==
    [i \in 1..Len(method) |-> char_to_lowercase(method[i])] \o <<".", "j", "s", "o", "n">>

\* after is before with exactly one entry, e, added
AddsExactly(before, after, e) ==
    /\ Len(after) = Len(before) + 1
    /\ \E pos \in 1..Len(after) :
           /\ after[pos] = e
           /\ \A i \in 1..Len(before) :
                  before[i] = after[IF i < pos THEN i ELSE i + 1]
    /\ \A i \in 1..Len(before) : before[i].name # e.name

\* call i of picks created its placeholder and returned it
Created(i) ==
    LET c == picks[i]
        name == PlaceholderName(c.method)
    IN  /\ c.result = Ok([dir |-> c.dir, name |-> name])
        /\ AddsExactly(c.tree[c.dir].entries, c.tree_after[c.dir].entries,
                       [name |-> name, kind |-> "file", content |-> "", read |-> "Ok"])
        /\ \A d \in Dirs \ {c.dir} : c.tree_after[d] = c.tree[d]

\* every later call for the method and directory of call i finds the
\* placeholder as its only candidate, returns it and creates nothing
SoleCandidateAfter(i) ==
    LET c == picks[i]
        path == [dir |-> c.dir, name |-> PlaceholderName(c.method)]
    IN  \A j \in (i + 1)..Len(picks) :
            (picks[j].dir = c.dir /\ picks[j].method = c.method) =>
                /\ picks[j].available = <<path>>
                /\ picks[j].result = Ok(path)
                /\ picks[j].tree_after = picks[j].tree

\* the placeholder name of call c is taken by a subdirectory
NameIsDirectory(c) ==
    \E e \in Range(c.tree[c.dir].entries) :
        e.name = PlaceholderName(c.method) /\ e.kind = "dir"

\* C2 as stated: with create_missing, every call that finds no candidate
\* adds exactly one empty file '<m lowercased>.json' and returns its path,
\* and every later call for that method on that directory returns that file
\* as the sole candidate and creates nothing.
C2_AutoCreateAlways ==
    \A i \in 1..Len(picks) :
        (TookEmptyBranch(picks[i]) /\ create_missing) =>
            Created(i) /\ SoleCandidateAfter(i)

\* C2, amended: the same when the file can be created; when the name
\* '<m lowercased>.json' is taken by a subdirectory the call returns the
\* I/O error of File::create, adds no file and leaves the cursor map alone.
C2_AutoCreate ==
    \A i \in 1..Len(picks) :
        (TookEmptyBranch(picks[i]) /\ create_missing) =>
            IF NameIsDirectory(picks[i])
            THEN /\ picks[i].result.tag = "Err"
                 /\ picks[i].result.kind # "NotFound"
                 /\ picks[i].tree_after = picks[i].tree
                 /\ picks[i].after = picks[i].before
            ELSE Created(i) /\ SoleCandidateAfter(i)

\* a placeholder was created and then served by a later call
C2_Witness ==
    \E i \in 1..Len(picks), j \in 1..Len(picks) :
        /\ i < j
        /\ TookEmptyBranch(picks[i]) /\ create_missing
        /\ picks[i].result.tag = "Ok"
        /\ picks[j].dir = picks[i].dir /\ picks[j].method = picks[i].method
        /\ picks[j].result = picks[i].result
        /\ Len(picks[j].available) = 1

\* C3: without create_missing, a call that finds no candidate returns the
\* NotFound error 'No files available' and changes neither the directory
\* tree nor the cursor map, which gets no entry for the directory.
C3_NotFoundChangesNothing ==
    \A i \in 1..Len(picks) :
        (TookEmptyBranch(picks[i]) /\ ~create_missing) =>
            /\ picks[i].result = Err("NotFound", "No files available")
            /\ picks[i].tree_after = picks[i].tree
            /\ picks[i].after = picks[i].before
            /\ (picks[i].dir \in DOMAIN picks[i].after)
                   <=> (picks[i].dir \in DOMAIN picks[i].before)

\* a call found no candidate with create_missing off, on a directory that
\* holds files and while the cursor map has entries but none for it
C3_Witness ==
    \E i \in 1..Len(picks) :
        /\ TookEmptyBranch(picks[i]) /\ ~create_missing
        /\ picks[i].tree[picks[i].dir].entries # <<>>
        /\ DOMAIN picks[i].before # {}
        /\ picks[i].dir \notin DOMAIN picks[i].before

\* the stem of a file name equals the method or starts with '<method>_',
\* both compared case-insensitively
MatchesIgnoringCase(name, method) ==
    LET stem == file_stem(name)
    IN  /\ stem.tag = "Some"
        /\ \/ to_lowercase(stem.v) = to_lowercase(method)
           \/ starts_with(to_lowercase(stem.v), to_lowercase(method) \o <<"_">>)

\* C4: the candidates of every call are exactly the regular files of the
\* directory whose stem, case-insensitively, equals the method or starts
\* with '<method>_'.
C4_CaseInsensitiveMatching ==
    \A i \in 1..Len(picks) :
        picks[i].listed =>
            Range(picks[i].available)
              = {[dir |-> picks[i].dir, name |-> e.name] :
                   e \in {f \in Range(picks[i].tree[picks[i].dir].entries) :
                             f.kind = "file" /\ MatchesIgnoringCase(f.name, picks[i].method)}}

----------------------------------------------------------------------------
(* Claims about the request pipeline *)

\* the latest request was handled and a Mapper Output was built for it
Built == last.tag = "Call" /\ last.built.tag = "Some"

\* the entries of the file system, as it is after the latest request, that
\* the path selected for that request names
SelectedEntries ==
    SelectSeq(fs[last.file.v.path.dir].entries,
              LAMBDA e : e.name = last.file.v.path.name)

HasHeader(response, name, value) ==
    name \in DOMAIN response.headers /\ response.headers[name] = value

\* C5: a status-200 response built from a selected file carries
\* Content-Type: application/json when the file's extension is json, and no
\* Content-Type otherwise.
C5_ContentTypeByExtension ==
    (Built /\ last.built.v.response.status = 200) =>
        IF extension(last.file.v.path.name) = Some(<<"j", "s", "o", "n">>)
        THEN HasHeader(last.built.v.response, "content-type", "application/json")
        ELSE "content-type" \notin DOMAIN last.built.v.response.headers

\* C6: every response MapperOutput::new builds, whatever its status and the
\* branch that built it, carries the three Access-Control-Allow headers
\* with value '*'.
C6_DefaultHeaders ==
    Built =>
        /\ HasHeader(last.built.v.response, "access-control-allow-origin", "*")
        /\ HasHeader(last.built.v.response, "access-control-allow-methods", "*")
        /\ HasHeader(last.built.v.response, "access-control-allow-headers", "*")

\* a response was built from the failed read of a selected file
C6_Witness ==
    /\ Built
    /\ last.file.v.tag = "Ok"
    /\ last.built.v.response.status = 500
    /\ HasHeader(last.built.v.response, "access-control-allow-headers", "*")

\* C7: a selected file that is read gives status 200 and the file contents
\* as body; a selector error or a failed read gives 404 when the error kind
\* is NotFound and 500 otherwise, with the error's message as body; no
\* other status is built.
C7_StatusMapping ==
    Built =>
        LET response == last.built.v.response
            result == last.file.v
        IN  /\ response.status \in {200, 404, 500}
            /\ IF result.tag = "Err"
               THEN /\ response.status = IF result.kind = "NotFound" THEN 404 ELSE 500
                    /\ response.body = <<result.msg>>
               ELSE IF SelectedEntries = <<>>
               THEN response.status = 404
               ELSE IF SelectedEntries[1].read = "Ok"
               THEN /\ response.status = 200
                    /\ response.body = <<SelectedEntries[1].content>>
               ELSE response.status = 500

\* the selected file was deleted before it was read: a path, answered 404
C7_Witness ==
    /\ Built
    /\ last.file.v.tag = "Ok"
    /\ SelectedEntries = <<>>
    /\ last.built.v.response.status = 404

\* the position of the first registered mutation that fails, 0 when none does
FirstFailing ==
    LET failing == {i \in 1..Len(mutations) : mutations[i].fails}
    IN  IF failing = {} THEN 0 ELSE CHOOSE i \in failing : \A j \in failing : i <= j

\* the names of the first n registered mutations, in registration order
Registered(n) == [i \in 1..n |-> mutations[i].name]

\* C8: when the directory resolves, the mutations are applied to the one
\* Mapper Output in registration order; when one fails, none after it is
\* applied and the outcome is a transport failure; when none fails, the
\* returned response is the output's response after all of them.
C8_MutationOrder ==
    (last.tag = "Call" /\ last.request.path \in DOMAIN last.tree) =>
        IF FirstFailing # 0
        THEN /\ last.applied = Registered(FirstFailing)
             /\ last.outcome.tag = "Failure"
        ELSE /\ last.applied = Registered(Len(mutations))
             /\ last.outcome = [tag |-> "Response", response |-> last.output.v.response]
             /\ last.output.v.response.body
                  = last.built.v.response.body \o Registered(Len(mutations))
             /\ last.output.v.response.status = last.built.v.response.status

\* a request stopped at the failing second of three mutations
C8_Witness ==
    /\ last.tag = "Call"
    /\ Len(mutations) = 3
    /\ FirstFailing = 2
    /\ last.applied = <<"A", "F">>
    /\ last.outcome.tag = "Failure"

\* the path of the latest request names no directory
DirectoryMissing == last.tag = "Call" /\ last.request.path \notin DOMAIN last.tree

\* C9 as stated: a request for a directory that does not exist is answered
\* with an HTTP response of status 404.
C9_MissingDirectoryIs404 ==
    DirectoryMissing =>
        /\ last.outcome.tag = "Response"
        /\ last.outcome.response.status = 404

\* C9, amended: a request for a directory that does not exist ends in a
\* transport failure carrying the resolver's NotFound error; it gets no
\* HTTP response, so no status 404.
C9_MissingDirectoryFails ==
    DirectoryMissing =>
        /\ last.outcome.tag = "Failure"
        /\ last.outcome.error.kind = "NotFound"

\* a request for the missing directory was handled
C9_Witness ==
    /\ DirectoryMissing
    /\ last.outcome.tag = "Failure"

\* C10: when the Directory Resolver fails, the File Selector is not invoked
\* (no file is created, the cursor map is unchanged), no Mapper Output is
\* built, no mutation is applied and the outcome is a transport error.
C10_ResolverFailureShortCircuits ==
    DirectoryMissing =>
        /\ last.file = None
        /\ fs = last.tree
        /\ multifile_indices = last.before
        /\ last.built = None
        /\ last.output = None
        /\ last.applied = <<>>
        /\ last.outcome.tag = "Failure"

\* the resolver failed for a service with mutations and auto-create, after
\* earlier requests had stored a cursor
C10_Witness ==
    /\ DirectoryMissing
    /\ mutations # <<>>
    /\ create_missing
    /\ DOMAIN multifile_indices # {}
    /\ last.file = None

----------------------------------------------------------------------------
(* Claims about the cursor of the File Selector *)

\* the positions, in the calls on one directory, of the calls that are for
\* the method of call i, in any spelling, and list its candidates
SameMethodCalls(calls, i) ==
    {j \in 1..Len(calls) :
        /\ to_lowercase(calls[j].method) = to_lowercase(calls[i].method)
        /\ calls[j].listed
        /\ calls[j].available = calls[i].available}

\* the n smallest members of a set of positions that are at least i
RECURSIVE FirstFrom(_, _, _)
FirstFrom(positions, i, n) ==
    LET rest == {j \in positions : j >= i}
    IN  IF n = 0 \/ rest = {} THEN {}
        ELSE LET j == CHOOSE k \in rest : \A l \in rest : k <= l
             IN  {j} \cup FirstFrom(positions, j + 1, n - 1)

\* C12: on a directory with an unchanged listing, whatever calls for other
\* methods come in between, any N consecutive calls for a method with N
\* candidates are handed every index 0..N-1 exactly once.
C12_CycleAcrossMethods ==
    \A d \in Dirs :
        LET calls == PicksOn(d)
        IN  \A i \in 1..Len(calls) :
                LET N == Len(calls[i].available)
                    window == FirstFrom(SameMethodCalls(calls, i), i, N)
                IN  (calls[i].listed /\ N >= 1 /\ Cardinality(window) = N
                     /\ \A j \in i..Len(calls) :
                            calls[j].tree[d] = calls[i].tree[d])
                    => {calls[j].index : j \in window} = 0..(N - 1)

\* C14: a call with L >= 1 candidates, whatever cursor it finds, selects at
\* an index in 0..L-1, returns the path at that index of its own listing,
\* never the error 'Could not read file', and stores index + 1.
C14_CursorClamped ==
    \A i \in 1..Len(picks) :
        LET c == picks[i]
            L == Len(c.available)
        IN  (c.listed /\ L >= 1) =>
                /\ 0 <= c.index /\ c.index < L
                /\ c.result = Ok(c.available[c.index + 1])
                /\ c.dir \in DOMAIN c.after
                /\ c.after[c.dir] = c.index + 1
                /\ c.after[c.dir] \in 1..L

\* a call found a cursor left beyond its own candidate count
C14_Witness ==
    \E i \in 1..Len(picks) :
        /\ picks[i].listed
        /\ Len(picks[i].available) >= 1
        /\ picks[i].dir \in DOMAIN picks[i].before
        /\ picks[i].before[picks[i].dir] > Len(picks[i].available)
        /\ picks[i].result.tag = "Ok"

\* the cursor map m holds for directory d what the map n holds for it
SameCursor(m, n, d) ==
    /\ (d \in DOMAIN m) <=> (d \in DOMAIN n)
    /\ (d \in DOMAIN m) => m[d] = n[d]

\* C16: a call on directory D leaves the cursor of every other directory
\* alone; a call that fails to list or finds no candidate leaves the whole
\* map alone, auto-created file or not; a call with candidates changes the
\* entry of D and nothing else.
C16_CursorFrame ==
    \A i \in 1..Len(picks) :
        LET c == picks[i]
        IN  /\ \A d \in Dirs \ {c.dir} : SameCursor(c.before, c.after, d)
            /\ DOMAIN c.after \subseteq Dirs
            /\ IF c.listed /\ c.available # <<>>
               THEN c.dir \in DOMAIN c.after
               ELSE c.after = c.before

\* a call created its placeholder while the other directory had a cursor
\* and its own had none, and still has none
C16_Witness ==
    \E i \in 1..Len(picks) :
        /\ TookEmptyBranch(picks[i])
        /\ picks[i].tree_after # picks[i].tree
        /\ DOMAIN picks[i].before # {}
        /\ picks[i].dir \notin DOMAIN picks[i].after

----------------------------------------------------------------------------
(* Claims about failures inside the pipeline *)

\* the selector failed for the latest request, or the file it selected could
\* not be read
SelectionFailed ==
    /\ Built
    /\ \/ last.file.v.tag = "Err"
       \/ SelectedEntries = <<>>
       \/ SelectedEntries[1].read # "Ok"

\* C11: a failure of the File Selector (no candidate without auto-create, a
\* listing failure, a file-creation failure) or of the read of the selected
\* file still gives a response of status 404 or 500, on which the whole
\* mutation chain is run; the outcome is a transport failure only if a
\* mutation fails, and is that response otherwise.
C11_FailuresBecomeResponses ==
    SelectionFailed =>
        /\ last.built.v.response.status \in {404, 500}
        /\ DOMAIN last.built.v.response = {"status", "headers", "body"}
        /\ IF FirstFailing # 0
           THEN /\ last.applied = Registered(FirstFailing)
                /\ last.outcome.tag = "Failure"
                /\ last.outcome.error.kind = "Mutation"
           ELSE /\ last.applied = Registered(Len(mutations))
                /\ last.outcome.tag = "Response"
                /\ last.outcome.response.status = last.built.v.response.status
                /\ last.outcome.response.body
                     = last.built.v.response.body \o Registered(Len(mutations))

\* the selector failed with an error other than NotFound and both mutations
\* of the service ran on the 500 response that was returned
C11_Witness ==
    /\ Built
    /\ last.file.v.tag = "Err"
    /\ last.file.v.kind # "NotFound"
    /\ Len(mutations) = 2
    /\ last.applied = <<"A", "B">>
    /\ last.outcome.tag = "Response"
    /\ last.outcome.response.status = 500

\* C15: the Mapper Output keeps the selector's result as it was returned,
\* through assembly and through the mutations; when the selector returned a
\* path and the read of that path failed, the stored result is still that
\* path while the response has status 404 or 500.
C15_ResultRetained ==
    Built =>
        /\ last.built.v.result = last.file.v
        /\ last.output.v.result = last.file.v
        /\ (last.file.v.tag = "Ok" /\ SelectionFailed) =>
               /\ last.built.v.result.tag = "Ok"
               /\ last.built.v.response.status \in {404, 500}

\* a path was selected, its read failed, and the output stores the path
C15_Witness ==
    /\ Built
    /\ last.file.v.tag = "Ok"
    /\ last.built.v.response.status \in {404, 500}
    /\ last.output.v.result = last.file.v
    /\ mutations # <<>>

----------------------------------------------------------------------------
(* Claims about concurrent calls of the File Selector *)

\* the calls on directory d that have returned, and those that have left the
\* critical section, returned or not, each with the cursor it found, the
\* index it was handed and when it began and ended
Completed(d) ==
    {[began |-> done[i].began, ended |-> done[i].ended,
      read |-> done[i].read, index |-> done[i].index] :
        i \in {j \in 1..Len(done) : done[j].dir = d /\ done[j].available # <<>>}}

PastTheLock(d) ==
    Completed(d) \cup
    {[began |-> frame[t].began, ended |-> Now + 1,
      read |-> frame[t].read, index |-> frame[t].index] :
        t \in {u \in Threads : /\ pc[u] = "return"
                               /\ frame[u].dir = d
                               /\ frame[u].available # <<>>}}

\* the candidate lists of all the calls made on directory d so far
ListsSeen(d) ==
    {done[i].available : i \in {j \in 1..Len(done) : done[j].dir = d}}
    \cup {frame[t].available : t \in {u \in Threads : pc[u] # "idle" /\ frame[u].dir = d}}

\* every call on d so far found the same N >= 1 candidates
Unchanged(d, N) ==
    /\ fs[d].readable
    /\ N >= 1
    /\ \A a \in ListsSeen(d) : Len(a) = N /\ a = CHOOSE b \in ListsSeen(d) : TRUE

\* the calls were handed the indices 0, 1, ..., k-1 taken mod N, each call a
\* position of its own
HandedInOrder(calls, N) ==
    /\ \A c \in calls : c.index \in 0..(N - 1)
    /\ \A r \in 0..(N - 1) :
           Cardinality({c \in calls : c.index = r})
             = Cardinality({i \in 0..(Cardinality(calls) - 1) : i % N = r})

\* one call began before the other ended, and the other way round
Overlap(a, b) == a.began < b.ended /\ b.began < a.ended

\* the cursor the call at position i of the lock order finds: none stored
\* for the first, index + 1 of the call before for the others
CursorFound(i, N) == IF i = 0 THEN 0 ELSE ((i - 1) % N) + 1

\* the candidates of directory d for the threads' method
Candidates(d) ==
    IF fs[d].readable
    THEN available_files(d, fs[d].entries, CHOOSE m \in ThreadMethods : TRUE)
    ELSE <<>>

\* C13 as stated: with N unchanged candidates in a directory not served
\* before, the k calls that have returned were handed the indices 0..k-1
\* mod N, and no two overlapping calls read the same cursor value.
C13_ReturnedCallsInOrder ==
    \A d \in Dirs :
        LET N == Len(Candidates(d))
        IN  Unchanged(d, N) =>
                /\ HandedInOrder(Completed(d), N)
                /\ \A a, b \in Completed(d) :
                       (a # b /\ Overlap(a, b)) => a.read # b.read

\* C13, amended: at most one thread is between lock and unlock; with N
\* unchanged candidates in a directory not served before, the k calls that
\* have left the critical section (returned or not) were handed the indices
\* 0..k-1 mod N, each found the cursor the call before it stored (so two
\* calls read the same value only after the cursor has wrapped), and the
\* stored cursor counts all k of them.
C13_CursorUpdateAtomic ==
    /\ Cardinality({t \in Threads : pc[t] \in {"entry", "nth"}}) <= 1
    /\ holders = {t \in Threads : pc[t] \in {"entry", "nth"}}
    /\ \A d \in Dirs :
        LET N == Len(Candidates(d))
            calls == PastTheLock(d)
            k == Cardinality(calls)
        IN  Unchanged(d, N) =>
                /\ HandedInOrder(calls, N)
                /\ \A c \in calls : c.index = c.read % N
                /\ \A v \in 0..N :
                       Cardinality({c \in calls : c.read = v})
                         = Cardinality({i \in 0..(k - 1) : CursorFound(i, N) = v})
                /\ (\A t \in Threads : ~(pc[t] = "nth" /\ frame[t].dir = d)) =>
                       IF k = 0
                       THEN d \notin DOMAIN multifile_indices
                       ELSE /\ d \in DOMAIN multifile_indices
                            /\ multifile_indices[d] = CursorFound(k, N)

\* three calls on one directory have left the critical section, two of them
\* overlapping, and the cursor has wrapped
C13_Witness ==
    \E d \in Dirs :
        /\ Unchanged(d, Len(Candidates(d)))
        /\ Cardinality(PastTheLock(d)) = 3
        /\ \E a, b \in PastTheLock(d) : a # b /\ Overlap(a, b)
        /\ \E a, b \in PastTheLock(d) : a # b /\ a.index = b.index

\* the returned calls on directory d that listed no candidate
ListedNone(d) ==
    {i \in 1..Len(done) : done[i].dir = d /\ done[i].listed /\ done[i].available = <<>>}

\* two returned calls on d for the same method that overlapped and both
\* listed no candidate, on a service with auto-create
RacedToCreate(d, i, j) ==
    /\ create_missing
    /\ i \in ListedNone(d) /\ j \in ListedNone(d) /\ i # j
    /\ to_lowercase(done[i].method) = to_lowercase(done[j].method)
    /\ Overlap(done[i], done[j])

\* no call on d has reached the cursor: none is past the lock or holds it
NoneReachedCursor(d) ==
    /\ PastTheLock(d) = {}
    /\ \A t \in Threads : pc[t] \in {"entry", "nth"} => frame[t].dir # d

\* C17 as stated: overlapping calls for one method that all list no candidate
\* with create_missing all return the path of '<m>.json', the directory ends
\* with exactly one candidate for the method, and none of them inserts or
\* advances the directory's cursor.
C17_AutoCreateConverges ==
    \A d \in Dirs : \A i, j \in 1..Len(done) :
        RacedToCreate(d, i, j) =>
            /\ done[i].result = Ok(JoinPath(d, missing_file_name(done[i].method)))
            /\ done[j].result = done[i].result
            /\ Len(Candidates(d)) = 1
            /\ NoneReachedCursor(d) => d \notin DOMAIN multifile_indices

\* C17, amended: such calls all return the path of '<m>.json' and leave the
\* directory with exactly one candidate when File::create succeeds; when it
\* fails (the name is taken by a subdirectory) each of them returns the
\* error and the directory keeps no candidate.  In both cases none of them
\* inserts or advances the directory's cursor.
C17_AutoCreateConvergesIfCreated ==
    \A d \in Dirs : \A i, j \in 1..Len(done) :
        RacedToCreate(d, i, j) =>
            /\ done[j].result = done[i].result
            /\ IF done[i].result.tag = "Ok"
               THEN /\ done[i].result = Ok(JoinPath(d, missing_file_name(done[i].method)))
                    /\ Len(Candidates(d)) = 1
               ELSE /\ \E e \in Range(fs[d].entries) :
                          e.name = missing_file_name(done[i].method) /\ e.kind = "dir"
                    /\ Len(Candidates(d)) = 0
            /\ NoneReachedCursor(d) => d \notin DOMAIN multifile_indices

\* two overlapping calls both listed nothing and both returned the one
\* placeholder, while the other directory has a cursor
C17_Witness ==
    \E d \in Dirs : \E i, j \in 1..Len(done) :
        /\ RacedToCreate(d, i, j)
        /\ done[i].result.tag = "Ok"
        /\ done[j].result = done[i].result
        /\ Len(Candidates(d)) = 1
        /\ d \notin DOMAIN multifile_indices
        /\ DOMAIN multifile_indices # {}

\* the threads between lock and the drop of the guard
InCriticalSection == {t \in Threads : pc[t] \in {"entry", "nth"}}

\* C18: the Mutex is held only for the cursor lookup/reset/select/increment
\* and is released on every way out of pick_file, and with every thread
\* inside pick_file scheduled fairly each started call returns, whatever the
\* directories of the calls: no interleaving deadlocks.
C18_LockLiveness ==
    /\ [](holders = InCriticalSection)
    /\ \A t \in Threads : (pc[t] # "idle") ~> (pc[t] = "idle")

\* a thread waits for the Mutex that a thread serving another directory
\* holds, after an earlier call has returned
C18_Witness ==
    \E t, u \in Threads :
        /\ pc[t] = "lock"
        /\ pc[u] = "nth"
        /\ holders = {u}
        /\ frame[t].dir # frame[u].dir
        /\ done # <<>>

====
